---- MODULE Spec2Model ----
(***************************************************************************)
(* The realtime session client of the chat frontend:                       *)
(* frontend/src/services/websocket.ts, class WebSocketService.             *)
(*                                                                         *)
(* The manager's fields are the variables.  The browser side (the          *)
(* WebSocket objects the manager creates, the timers it schedules) is      *)
(* kept in socks, timers and intervals.  Every method and every handler    *)
(* of the class is an operator on a "world" record w that holds all of     *)
(* this, so that a handler that calls another method (onclose calling      *)
(* attemptReconnect, a subscriber calling disconnect) is one step.         *)
(***************************************************************************)
EXTENDS Integers, Sequences, FiniteSets, TLC

VARIABLES
  socket,             \* this.socket: 0 (null) or the slot of a WebSocket
  reconnectAttempts,  \* this.reconnectAttempts
  reconnectTimeout,   \* this.reconnectTimeout: "null" or "handle"
  heartbeatInterval,  \* this.heartbeatInterval: "null" or "handle"
  connectionPromise,  \* this.connectionPromise: NoPromise or a promise
  callbacks,          \* the seven callback arrays, by event name
  socks,              \* the WebSocket objects that can still deliver events
  timers,             \* pending setTimeout timers, in scheduling order
  delays,             \* delays scheduled since the attempt count was last 0
  intervals,          \* number of running setInterval timers
  ev                  \* what the last step did (observation only)

vars == <<socket, reconnectAttempts, reconnectTimeout, heartbeatInterval,
          connectionPromise, callbacks, socks, timers, delays, intervals, ev>>

-----------------------------------------------------------------------------
(* Program constants *)

maxReconnectAttempts == 5
reconnectDelay == 1000
NormalClosure == 1000

(* Bounds of the model *)

MaxSockets == 2      \* WebSocket objects that can still deliver events
MaxTimers == 2       \* pending reconnect timers
MaxIntervals == 2    \* running heartbeat intervals
MaxCallbacks == 2    \* callbacks registered over all kinds
MaxFrames == 3       \* inbound frames of a run whose dispatches are logged

Rooms == {"r1", "r2"}
CloseCodes == {1000, 1006}
Slots == 1..MaxSockets

Events == {"message", "reaction", "user_status", "notification",
           "message_edited", "message_deleted", "read_receipt"}

\* Subscriber callbacks, by what they do when invoked.
Callbacks == {"f", "g", "thrower"}

NoPromise == [kind |-> "null", sock |-> 0]
\* A WebSocket object: its readyState, the roomName its handlers closed over,
\* the promise made with it (and whether that promise was resolved with this
\* socket or with another), and which onmessage handler it carries.
NoSock == [st |-> "NONE", room |-> "", promise |-> "none", value |-> "none",
           onmessage |-> "none"]
DeadSock == [st |-> "CLOSED", room |-> "", promise |-> "none", value |-> "none",
             onmessage |-> "none"]

\* The log of a run: the frames received and, for every callback invocation,
\* the callback and the number of the frame it was given.  It is kept only
\* in the runs that start with it switched on.
NoLog == [on |-> FALSE, rx |-> <<>>, calls |-> <<>>]

NoObs == [op |-> "init", sock |-> 0, room |-> "", code |-> 0, type |-> "",
          ok |-> TRUE, callback |-> "", trip |-> "", log |-> NoLog, was |-> "",
          event |-> "", list |-> <<>>,
          created |-> 0, returned |-> NoPromise, settled |-> "none",
          resolvedWith |-> 0, sched |-> <<>>, reconn |-> 0, cleared |-> 0,
          closeCalls |-> <<>>, out |-> <<>>, invoked |-> <<>>,
          caught |-> FALSE, threw |-> FALSE, touched |-> FALSE,
          afterExhaustion |-> 0, overflow |-> FALSE]

-----------------------------------------------------------------------------
(* The world record *)

World ==
  [socket |-> socket, reconnectAttempts |-> reconnectAttempts,
   reconnectTimeout |-> reconnectTimeout,
   heartbeatInterval |-> heartbeatInterval,
   connectionPromise |-> connectionPromise, callbacks |-> callbacks,
   socks |-> socks, timers |-> timers, delays |-> delays,
   intervals |-> intervals,
   obs |-> NoObs]

Begin(op, s, room, code) ==
  [World EXCEPT !.obs.op = op, !.obs.sock = s, !.obs.room = room,
                !.obs.code = code, !.obs.log = ev.log]

\* WebSocket.readyState
readyState(w, s) ==
  IF w.socks[s].st = "FAILED" THEN "CLOSED" ELSE w.socks[s].st

\* this.socket && this.socket.readyState === WebSocket.OPEN
socketOpen(w) == w.socket # 0 /\ readyState(w, w.socket) = "OPEN"

Min(S) == CHOOSE x \in S : \A y \in S : x <= y

\* A closed WebSocket that has delivered its close event and that the
\* manager no longer references can do nothing more: its slot is reused.
Normalize(w) ==
  [w EXCEPT !.socks = [s \in Slots |->
      IF w.socks[s].st = "CLOSED"
      THEN (IF s = w.socket THEN DeadSock ELSE NoSock)
      ELSE w.socks[s]]]

-----------------------------------------------------------------------------
(* Heartbeat *)

\* stopHeartbeat(), lines 130-135
stopHeartbeat(w) ==
  IF w.heartbeatInterval # "null"
  THEN [w EXCEPT !.intervals = @ - 1, !.heartbeatInterval = "null"]
  ELSE w

\* startHeartbeat(), lines 107-128: setInterval overwrites the handle; the
\* message handler of this.socket (not of the socket that opened) is replaced,
\* which throws a TypeError when this.socket is null.
startHeartbeat(w) ==
  LET w1 == [w EXCEPT !.intervals = @ + 1, !.heartbeatInterval = "handle"] IN
  IF w1.socket = 0
  THEN [w1 EXCEPT !.obs.threw = TRUE]
  ELSE [w1 EXCEPT !.socks[w1.socket].onmessage = "heartbeat"]

-----------------------------------------------------------------------------
(* Reconnection *)

\* The timers left once the handle in this.reconnectTimeout is overwritten
\* or cleared: no pending timer is the held one.
Unheld(ts) == [i \in 1..Len(ts) |-> [ts[i] EXCEPT !.held = FALSE]]

\* attemptReconnect with the delay taken from the count before it is
\* incremented.
attemptReconnectStaleDelay(w, roomName) ==
  LET w1 == [w EXCEPT !.obs.reconn = @ + 1] IN
  IF w1.reconnectAttempts < maxReconnectAttempts
  THEN LET n == w1.reconnectAttempts + 1
           d == reconnectDelay * w1.reconnectAttempts
       IN [w1 EXCEPT !.reconnectAttempts = n,
                     !.timers = Append(Unheld(@),
                                  [room |-> roomName, held |-> TRUE]),
                     !.delays = Append(@, d),
                     !.reconnectTimeout = "handle",
                     !.obs.sched = Append(@, d)]
  ELSE w1

\* attemptReconnect without the limit on the attempts.
attemptReconnectNoLimit(w, roomName) ==
  [w EXCEPT !.obs.reconn = @ + 1,
            !.timers = Append(Unheld(@), [room |-> roomName, held |-> TRUE]),
            !.reconnectTimeout = "handle"]

\* attemptReconnect that still retries when the count has reached the
\* maximum (<= for <).
attemptReconnectOneMore(w, roomName) ==
  LET w1 == [w EXCEPT !.obs.reconn = @ + 1] IN
  IF w1.reconnectAttempts <= maxReconnectAttempts
  THEN LET n == w1.reconnectAttempts + 1
           d == reconnectDelay * n
       IN [w1 EXCEPT !.reconnectAttempts = n,
                     !.timers = Append(Unheld(@),
                                  [room |-> roomName, held |-> TRUE]),
                     !.delays = Append(@, d),
                     !.reconnectTimeout = "handle",
                     !.obs.sched = Append(@, d)]
  ELSE w1

\* attemptReconnect that retries the room of the socket the manager holds
\* instead of the room its caller was created with.
attemptReconnectCurrentRoom(w, roomName) ==
  LET w1 == [w EXCEPT !.obs.reconn = @ + 1]
      room == IF w.socket # 0 THEN w.socks[w.socket].room ELSE roomName
  IN IF w1.reconnectAttempts < maxReconnectAttempts
     THEN LET n == w1.reconnectAttempts + 1
              d == reconnectDelay * n
          IN [w1 EXCEPT !.reconnectAttempts = n,
                        !.timers = Append(Unheld(@),
                                     [room |-> room, held |-> TRUE]),
                        !.delays = Append(@, d),
                        !.reconnectTimeout = "handle",
                        !.obs.sched = Append(@, d)]
     ELSE w1

\* attemptReconnect that counts every call, also those made at the limit.
attemptReconnectCountsEveryCall(w, roomName) ==
  LET w1 == [w EXCEPT !.obs.reconn = @ + 1, !.reconnectAttempts = @ + 1] IN
  IF w.reconnectAttempts < maxReconnectAttempts
  THEN LET d == reconnectDelay * w1.reconnectAttempts
       IN [w1 EXCEPT !.timers = Append(Unheld(@),
                                  [room |-> roomName, held |-> TRUE]),
                     !.delays = Append(@, d),
                     !.reconnectTimeout = "handle",
                     !.obs.sched = Append(@, d)]
  ELSE w1

\* attemptReconnect that starts the backoff again from 1 once the count
\* has reached the maximum.
attemptReconnectRestarts(w, roomName) ==
  LET w1 == [w EXCEPT !.obs.reconn = @ + 1]
      n == IF w1.reconnectAttempts < maxReconnectAttempts
           THEN w1.reconnectAttempts + 1 ELSE 1
      d == reconnectDelay * n
  IN [w1 EXCEPT !.reconnectAttempts = n,
                !.timers = Append(Unheld(@), [room |-> roomName, held |-> TRUE]),
                !.delays = IF n = 1 THEN <<d>> ELSE Append(@, d),
                !.reconnectTimeout = "handle",
                !.obs.sched = Append(@, d)]

\* attemptReconnect(roomName), lines 137-150.  A pending timer is its
\* callback's roomName; its delay is kept in delays and in obs.sched.
attemptReconnect(w, roomName) ==
  LET w1 == [w EXCEPT !.obs.reconn = @ + 1] IN
  IF w1.reconnectAttempts < maxReconnectAttempts
  THEN LET n == w1.reconnectAttempts + 1
           d == reconnectDelay * n
       IN [w1 EXCEPT !.reconnectAttempts = n,
                     !.timers = Append(Unheld(@),
                                  [room |-> roomName, held |-> TRUE]),
                     !.delays = Append(@, d),
                     !.reconnectTimeout = "handle",
                     !.obs.sched = Append(@, d)]
  ELSE w1

-----------------------------------------------------------------------------
(* connect and the handlers it installs *)

FreeSlots(w) == {s \in Slots : w.socks[s].st \in {"NONE", "CLOSED"}}

\* connect that opens a new transport whenever the marker is clear, without
\* looking at the current socket.
connectNoOpenTest(w, roomName) ==
  IF w.connectionPromise # NoPromise
  THEN [w EXCEPT !.obs.returned = w.connectionPromise]
  ELSE IF FreeSlots(w) = {}
  THEN [w EXCEPT !.obs.overflow = TRUE]
  ELSE LET s == Min(FreeSlots(w))
           p == [kind |-> "attempt", sock |-> s]
       IN [w EXCEPT !.socks[s] = [st |-> "CONNECTING", room |-> roomName,
                                  promise |-> "pending", value |-> "none",
                                  onmessage |-> "connect"],
                    !.socket = s,
                    !.connectionPromise = p,
                    !.obs.returned = p,
                    !.obs.created = s]

\* connect(roomName), lines 18-78
connect(w, roomName) ==
  IF w.connectionPromise # NoPromise
  THEN [w EXCEPT !.obs.returned = w.connectionPromise]
  ELSE IF socketOpen(w)
  THEN LET p == [kind |-> "immediate", sock |-> w.socket] IN
       [w EXCEPT !.connectionPromise = p, !.obs.returned = p,
                 !.obs.resolvedWith = w.socket]
  ELSE IF FreeSlots(w) = {}
  THEN [w EXCEPT !.obs.overflow = TRUE]
  ELSE LET s == Min(FreeSlots(w))
           p == [kind |-> "attempt", sock |-> s]
       IN [w EXCEPT !.socks[s] = [st |-> "CONNECTING", room |-> roomName,
                                  promise |-> "pending", value |-> "none",
                                  onmessage |-> "connect"],
                    !.socket = s,
                    !.connectionPromise = p,
                    !.obs.returned = p,
                    !.obs.created = s]

\* resolve(value) / reject(error) of the promise made with socket s: a
\* promise settles once.
resolve(w, s, value) ==
  IF w.socks[s].promise = "pending"
  THEN [w EXCEPT !.socks[s].promise = "resolved",
                 !.socks[s].value = IF value = s THEN "self" ELSE "other",
                 !.obs.settled = "resolved",
                 !.obs.resolvedWith = value]
  ELSE w

reject(w, s) ==
  IF w.socks[s].promise = "pending"
  THEN [w EXCEPT !.socks[s].promise = "rejected", !.obs.settled = "rejected"]
  ELSE w

\* socket.onopen, lines 38-43
onopen(w, s) ==
  LET w1 == startHeartbeat([w EXCEPT !.reconnectAttempts = 0, !.delays = <<>>]) IN
  IF w1.obs.threw THEN w1 ELSE resolve(w1, s, w1.socket)

\* onclose that reconnects whatever the close code.
oncloseAnyCode(w, s, code) ==
  attemptReconnect([stopHeartbeat(w) EXCEPT !.connectionPromise = NoPromise],
                   w.socks[s].room)

\* onclose that leaves every retry to onerror.
oncloseNoRetry(w, s, code) ==
  [stopHeartbeat(w) EXCEPT !.connectionPromise = NoPromise]

\* socket.onclose, lines 45-55
onclose(w, s, code) ==
  LET w1 == [stopHeartbeat(w) EXCEPT !.connectionPromise = NoPromise] IN
  IF code # NormalClosure THEN attemptReconnect(w1, w.socks[s].room) ELSE w1

\* onerror that rejects and does not retry.
onerrorNoRetry(w, s) == reject([w EXCEPT !.connectionPromise = NoPromise], s)

\* socket.onerror, lines 57-62
onerror(w, s) ==
  attemptReconnect(reject([w EXCEPT !.connectionPromise = NoPromise], s),
                   w.socks[s].room)

-----------------------------------------------------------------------------
(* disconnect *)

\* WebSocket.close(code): a connecting or open socket starts closing;
\* closing an already closing or closed socket does nothing.
close(w, s, code) ==
  [w EXCEPT !.socks[s].st = IF @ \in {"CONNECTING", "OPEN"} THEN "CLOSING" ELSE @,
            !.obs.closeCalls = Append(@, <<s, code>>)]

\* clearTimeout(this.reconnectTimeout): removes the held timer if it is
\* still pending.
clearTimeout(w) ==
  [w EXCEPT !.timers = SelectSeq(@, LAMBDA t : ~t.held),
            !.obs.cleared = Len(SelectSeq(w.timers, LAMBDA t : t.held))]

\* disconnect that closes this.socket without testing it for null: the call
\* on null throws and the rest of the method is not run.
disconnectNoNullTest(w) ==
  LET w1 == stopHeartbeat(w)
      w2 == IF w1.reconnectTimeout # "null"
            THEN [clearTimeout(w1) EXCEPT !.reconnectTimeout = "null"]
            ELSE w1
  IN IF w2.socket = 0
     THEN [w2 EXCEPT !.obs.threw = TRUE]
     ELSE [close(w2, w2.socket, NormalClosure)
             EXCEPT !.socket = 0, !.connectionPromise = NoPromise,
                    !.reconnectAttempts = 0, !.delays = <<>>]

\* disconnect that drops its reference to the socket without closing it.
disconnectNoClose(w) ==
  LET w1 == stopHeartbeat(w)
      w2 == IF w1.reconnectTimeout # "null"
            THEN [clearTimeout(w1) EXCEPT !.reconnectTimeout = "null"]
            ELSE w1
  IN [w2 EXCEPT !.socket = 0, !.connectionPromise = NoPromise,
                !.reconnectAttempts = 0, !.delays = <<>>]

\* disconnect(), lines 152-164
disconnect(w) ==
  LET w1 == stopHeartbeat(w)
      w2 == IF w1.reconnectTimeout # "null"
            THEN [clearTimeout(w1) EXCEPT !.reconnectTimeout = "null"]
            ELSE w1
      w3 == IF w2.socket # 0
            THEN [close(w2, w2.socket, NormalClosure) EXCEPT !.socket = 0]
            ELSE w2
  IN [w3 EXCEPT !.connectionPromise = NoPromise, !.reconnectAttempts = 0,
                !.delays = <<>>]

-----------------------------------------------------------------------------
(* Outbound commands *)

Undefined == "undefined"
MessageIds == {"7"}
Texts == {"hi"}
Emojis == {"+1"}

\* JSON.stringify of an object: a property whose value is undefined is left
\* out of the text.
stringify(obj) == [k \in {x \in DOMAIN obj : obj[x] # Undefined} |-> obj[k]]

\* A send that writes to the oldest socket still open instead of this.socket.
sendToOldestOpen(w, text) ==
  [w EXCEPT !.obs.out =
     Append(@, [sock |-> Min({s \in Slots : w.socks[s].st = "OPEN"}),
                frame |-> text])]

\* this.socket.send(text) on an open socket
send(w, text) == [w EXCEPT !.obs.out = Append(@, [sock |-> w.socket, frame |-> text])]

\* sendMessage that tags its frame like the other commands.
sendMessageTagged(w, message) ==
  IF socketOpen(w)
  THEN send(w, stringify([type |-> "message", message |-> message.message,
                          reply_to |-> message.reply_to]))
  ELSE w

\* sendMessage(message), lines 166-178
sendMessage(w, message) ==
  IF socketOpen(w)
  THEN send(w, stringify([message |-> message.message, reply_to |-> message.reply_to]))
  ELSE w

\* sendReaction(messageId, emoji), lines 180-188
sendReaction(w, messageId, emoji) ==
  IF socketOpen(w)
  THEN send(w, stringify([type |-> "reaction", message_id |-> messageId, emoji |-> emoji]))
  ELSE w

\* sendReadReceipt(messageId), lines 190-197
sendReadReceipt(w, messageId) ==
  IF socketOpen(w)
  THEN send(w, stringify([type |-> "read_receipt", message_id |-> messageId]))
  ELSE w

\* editMessage that tests only that a socket exists.
editMessageAnyState(w, messageId, content) ==
  IF w.socket # 0
  THEN send(w, stringify([type |-> "edit_message", message_id |-> messageId,
                          content |-> content]))
  ELSE w

\* editMessage(messageId, content), lines 199-207
editMessage(w, messageId, content) ==
  IF socketOpen(w)
  THEN send(w, stringify([type |-> "edit_message", message_id |-> messageId,
                          content |-> content]))
  ELSE w

\* deleteMessage(messageId), lines 209-216
deleteMessage(w, messageId) ==
  IF socketOpen(w)
  THEN send(w, stringify([type |-> "delete_message", message_id |-> messageId]))
  ELSE w

\* replyToMessage(messageId, content, replyToId), lines 218-225
replyToMessage(w, messageId, content, replyToId) ==
  IF socketOpen(w)
  THEN send(w, stringify([message |-> content, reply_to |-> replyToId]))
  ELSE w

\* An interval callback that tests only that a socket exists: send on a
\* socket that is not open throws.
heartbeatTickAnyState(w) ==
  IF w.socket # 0
  THEN IF readyState(w, w.socket) = "OPEN"
       THEN send(w, stringify([type |-> "ping"]))
       ELSE [w EXCEPT !.obs.threw = TRUE]
  ELSE w

\* The setInterval callback of startHeartbeat, lines 108-113
heartbeatTick(w) ==
  IF socketOpen(w) THEN send(w, stringify([type |-> "ping"])) ELSE w

-----------------------------------------------------------------------------
(* Subscriber registry and dispatch *)

\* A registration that pushes the callback twice.
onTwice(w, event, callback) ==
  [w EXCEPT !.callbacks[event] = Append(Append(@, callback), callback)]

\* onMessage .. onReadReceipt, lines 227-253
on(w, event, callback) == [w EXCEPT !.callbacks[event] = Append(@, callback)]

\* Array.prototype.indexOf: the first index holding the value, 0 if none.
indexOf(arr, x) ==
  IF \E i \in 1..Len(arr) : arr[i] = x
  THEN Min({i \in 1..Len(arr) : arr[i] = x})
  ELSE 0

\* Array.prototype.splice(index, 1)
splice(arr, i) == [j \in 1..(Len(arr) - 1) |-> IF j < i THEN arr[j] ELSE arr[j + 1]]

\* off that removes the last occurrence of the callback (lastIndexOf).
offLastOccurrence(w, event, callback) ==
  IF event \notin Events THEN w
  ELSE IF callback # Undefined
  THEN LET arr == w.callbacks[event]
           hits == {i \in 1..Len(arr) : arr[i] = callback}
       IN IF hits # {}
          THEN [w EXCEPT !.callbacks[event] =
                           splice(@, CHOOSE i \in hits : \A j \in hits : j <= i)]
          ELSE w
  ELSE [w EXCEPT !.callbacks[event] = <<>>]

\* off(event, callback), lines 255-288: an unknown event name selects a
\* fresh empty array.
off(w, event, callback) ==
  IF event \notin Events THEN w
  ELSE IF callback # Undefined
  THEN LET index == indexOf(w.callbacks[event], callback) IN
       IF index > 0 THEN [w EXCEPT !.callbacks[event] = splice(@, index)] ELSE w
  ELSE [w EXCEPT !.callbacks[event] = <<>>]

\* handleMessage without the branch for edited messages.
eventOfNoEdited(data) ==
  IF data.type = "reaction" THEN "reaction"
  ELSE IF data.type = "user_status" THEN "user_status"
  ELSE IF data.type = "notification" THEN "notification"
  ELSE IF data.type = "message_deleted" THEN "message_deleted"
  ELSE IF data.type = "read_receipt" THEN "read_receipt"
  ELSE "message"

\* The array handleMessage picks for a decoded frame, lines 82-104
eventOf(data) ==
  IF data.type = "reaction" THEN "reaction"
  ELSE IF data.type = "user_status" THEN "user_status"
  ELSE IF data.type = "notification" THEN "notification"
  ELSE IF data.type = "message_edited" THEN "message_edited"
  ELSE IF data.type = "message_deleted" THEN "message_deleted"
  ELSE IF data.type = "read_receipt" THEN "read_receipt"
  ELSE "message"

\* callback(data): invoking one subscriber callback with the decoded frame.
\* f and g return, thrower throws, closer calls disconnect() and returns,
\* unsub removes itself with off(kind, unsub) and clearer calls off(kind),
\* both for the kind of the frame they are given.
call(w, cb, data) ==
  LET w1 == [w EXCEPT !.obs.invoked = Append(@, cb),
                      !.obs.log.calls = IF w.obs.log.on
                                        THEN Append(@, [cb |-> cb, n |-> data.n])
                                        ELSE @]
  IN IF cb = "thrower" THEN [w1 EXCEPT !.obs.threw = TRUE]
     ELSE IF cb = "closer" THEN disconnect(w1)
     ELSE IF cb = "unsub" THEN off(w1, eventOf(data), "unsub")
     ELSE IF cb = "clearer" THEN off(w1, eventOf(data), Undefined)
     ELSE w1

\* Array.prototype.forEach over the callback array of an event: the length
\* is read once, each element is read when its turn comes, and an
\* exception thrown by a callback ends the loop.
RECURSIVE forEach(_, _, _, _, _)
forEach(w, event, data, i, len) ==
  IF i > len \/ w.obs.threw THEN w
  ELSE IF i > Len(w.callbacks[event]) THEN forEach(w, event, data, i + 1, len)
  ELSE forEach(call(w, w.callbacks[event][i], data), event, data, i + 1, len)

\* handleMessage(data), lines 80-105
handleMessage(w, data) ==
  LET event == eventOf(data)
      list == w.callbacks[event]
  IN forEach([w EXCEPT !.obs.event = event, !.obs.list = list],
             event, data, 1, Len(list))

\* A message handler whose exceptions are not caught.
catchNothing(w) == w

\* The catch clause of a message handler: the exception is logged.
catch(w) ==
  IF w.obs.threw THEN [w EXCEPT !.obs.threw = FALSE, !.obs.caught = TRUE] ELSE w

\* Inbound frames: text that JSON.parse rejects, or an object with an
\* optional type.
InTypes == {Undefined, "reaction", "user_status", "notification",
            "message_edited", "message_deleted", "read_receipt", "pong", "other"}
Inbound == [ok : {TRUE}, type : InTypes] \cup {[ok |-> FALSE, type |-> Undefined]}

\* JSON.parse(event.data) throws on malformed text.
parse(w, raw) == IF raw.ok THEN w ELSE [w EXCEPT !.obs.threw = TRUE]

\* socket.onmessage as installed by connect, lines 64-74
onmessageConnect(w, raw) ==
  LET w1 == [w EXCEPT !.obs.touched = TRUE]
      w2 == parse(w1, raw)
  IN catch(IF w2.obs.threw THEN w2 ELSE handleMessage(w2, raw))

\* A handler that keeps each frame and dispatches it when the next arrives.
onmessageHeartbeatDelayed(w, raw) ==
  LET w1 == [w EXCEPT !.obs.touched = TRUE]
      w2 == parse(w1, raw)
  IN catch(IF w2.obs.threw THEN w2
           ELSE IF raw.type = "pong" THEN w2
           ELSE IF raw.n > 1 THEN handleMessage(w2, w.obs.log.rx[raw.n - 1])
           ELSE w2)

\* socket.onmessage as installed by startHeartbeat, lines 116-127
onmessageHeartbeat(w, raw) ==
  LET w1 == [w EXCEPT !.obs.touched = TRUE]
      w2 == parse(w1, raw)
  IN catch(IF w2.obs.threw THEN w2
           ELSE IF raw.type = "pong" THEN w2
           ELSE handleMessage(w2, raw))

onmessage(w, s, raw) ==
  IF w.socks[s].onmessage = "heartbeat"
  THEN onmessageHeartbeat(w, raw)
  ELSE onmessageConnect(w, raw)

-----------------------------------------------------------------------------
(* Steps *)

Assign(w) ==
  /\ socket' = w.socket
  /\ reconnectAttempts' = w.reconnectAttempts
  /\ reconnectTimeout' = w.reconnectTimeout
  /\ heartbeatInterval' = w.heartbeatInterval
  /\ connectionPromise' = w.connectionPromise
  /\ callbacks' = w.callbacks
  /\ socks' = w.socks
  /\ timers' = w.timers
  /\ delays' = w.delays
  /\ intervals' = w.intervals
  /\ ev' = w.obs

\* A step is taken when its result stays within the bounds of the model.
Fits(w) ==
  /\ ~w.obs.overflow
  /\ Len(w.timers) <= MaxTimers
  /\ w.intervals <= MaxIntervals

Commit(w) == Assign(Normalize(w))

NumCallbacks == Len(callbacks["message"]) + Len(callbacks["reaction"])
                + Len(callbacks["user_status"]) + Len(callbacks["notification"])
                + Len(callbacks["message_edited"]) + Len(callbacks["message_deleted"])
                + Len(callbacks["read_receipt"])

Init ==
  /\ socket = 0
  /\ reconnectAttempts = 0
  /\ reconnectTimeout = "null"
  /\ heartbeatInterval = "null"
  /\ connectionPromise = NoPromise
  /\ callbacks = [e \in Events |-> <<>>]
  /\ socks = [s \in Slots |-> NoSock]
  /\ timers = <<>>
  /\ delays = <<>>
  /\ intervals = 0
  /\ ev = NoObs

(* Calls of the caller *)

\* ev.afterExhaustion follows a transport that the caller's connect()
\* creates once the retries are exhausted (the count at the maximum and no
\* timer pending) through the events it delivers next.
Connect(roomName) ==
  LET w0 == connect(Begin("connect", 0, roomName, 0), roomName)
      w == [w0 EXCEPT !.obs.afterExhaustion =
                        IF reconnectAttempts = maxReconnectAttempts /\ timers = <<>>
                        THEN w0.obs.created ELSE 0]
  IN Fits(w) /\ Commit(w)

Disconnect ==
  LET w == disconnect(Begin("disconnect", 0, "", 0))
  IN Fits(w) /\ Commit(w)

SendMessage(message) ==
  LET w == sendMessage(Begin("sendMessage", 0, "", 0), message)
  IN Fits(w) /\ Commit(w)

SendReaction(messageId, emoji) ==
  LET w == sendReaction(Begin("sendReaction", 0, "", 0), messageId, emoji)
  IN Fits(w) /\ Commit(w)

SendReadReceipt(messageId) ==
  LET w == sendReadReceipt(Begin("sendReadReceipt", 0, "", 0), messageId)
  IN Fits(w) /\ Commit(w)

EditMessage(messageId, content) ==
  LET w == editMessage(Begin("editMessage", 0, "", 0), messageId, content)
  IN Fits(w) /\ Commit(w)

DeleteMessage(messageId) ==
  LET w == deleteMessage(Begin("deleteMessage", 0, "", 0), messageId)
  IN Fits(w) /\ Commit(w)

ReplyToMessage(messageId, content, replyToId) ==
  LET w == replyToMessage(Begin("replyToMessage", 0, "", 0),
                          messageId, content, replyToId)
  IN Fits(w) /\ Commit(w)

\* ev.trip follows one round trip of the registry: a callback registered
\* for a kind that had none, then removed by the next call, then a frame of
\* that kind dispatched by the next step.
On(event, callback) ==
  /\ NumCallbacks < MaxCallbacks
  /\ LET w0 == [Begin("on", 0, event, 0)
                  EXCEPT !.obs.callback = callback,
                         !.obs.trip = IF callbacks[event] = <<>> THEN "on" ELSE ""]
         w == on(w0, event, callback)
     IN Fits(w) /\ Commit(w)

Off(event, callback) ==
  LET w0 == [Begin("off", 0, event, 0)
               EXCEPT !.obs.callback = callback,
                      !.obs.trip = IF ev.trip = "on" /\ ev.room = event
                                       /\ ev.callback = callback
                                    THEN "on,off" ELSE ""]
      w == off(w0, event, callback)
  IN Fits(w) /\ Commit(w)

(* Events of the browser *)

\* The browser fires the error event and the close event of a failed
\* connection in one turn of the event loop: between the two only code of
\* the caller can run (the continuation of a rejected promise), no other
\* event.
NoCloseDue == \A s \in Slots : socks[s].st # "FAILED"

\* The connection of socket s is established.
SocketOpen(s) ==
  /\ NoCloseDue
  /\ socks[s].st = "CONNECTING"
  /\ LET w == onopen([Begin("open", s, socks[s].room, 0)
                        EXCEPT !.socks[s].st = "OPEN"], s)
     IN Fits(w) /\ Commit(w)

\* The connection of socket s fails: readyState becomes CLOSED and the
\* error event is fired; the close event is still to come, and the model
\* keeps room for the timer it may schedule.
SocketError(s) ==
  /\ NoCloseDue
  /\ socks[s].st \in {"CONNECTING", "OPEN", "CLOSING"}
  /\ LET w == onerror([Begin("error", s, socks[s].room, 0)
                         EXCEPT !.socks[s].st = "FAILED",
                                !.obs.afterExhaustion =
                                  IF ev.afterExhaustion = s THEN s ELSE 0], s)
     IN /\ Len(onclose(w, s, 1006).timers) <= MaxTimers
        /\ Fits(w)
        /\ Commit(w)

\* The close event of socket s; after an error the closure is abnormal.
SocketClose(s, code) ==
  /\ socks[s].st \in {"CONNECTING", "OPEN", "CLOSING", "FAILED"}
  /\ socks[s].st # "FAILED" => NoCloseDue
  /\ socks[s].st = "FAILED" => code # NormalClosure
  /\ LET w == onclose([Begin("close", s, socks[s].room, code)
                         EXCEPT !.socks[s].st = "CLOSED",
                                !.obs.was = socks[s].st,
                                !.obs.afterExhaustion =
                                  IF ev.afterExhaustion = s THEN s ELSE 0], s, code)
     IN Fits(w) /\ Commit(w)

\* A frame arrives on socket s; the browser delivers frames only while the
\* socket is open.
SocketMessage(s, raw) ==
  /\ NoCloseDue
  /\ socks[s].st = "OPEN"
  /\ ev.log.on => Len(ev.log.rx) < MaxFrames
  /\ LET frame == [ok |-> raw.ok, type |-> raw.type,
                   n |-> IF ev.log.on THEN Len(ev.log.rx) + 1 ELSE 0]
         w0 == [Begin("message", s, socks[s].room, 0)
                  EXCEPT !.obs.type = raw.type, !.obs.ok = raw.ok,
                         !.obs.log.rx = IF ev.log.on THEN Append(@, frame) ELSE @]
         w1 == onmessage(w0, s, frame)
         w == [w1 EXCEPT !.obs.trip = IF ev.trip = "on,off" /\ w1.obs.event = ev.room
                                      THEN "on,off,dispatch" ELSE ""]
     IN Fits(w) /\ Commit(w)

\* The i-th pending reconnect timer fires, lines 142-146.  The handle in
\* this.reconnectTimeout is left as it is.
TimerFire(i) ==
  /\ NoCloseDue
  /\ i \in 1..Len(timers)
  /\ LET w0 == [Begin("timer", 0, timers[i].room, 0)
                  EXCEPT !.timers = [j \in 1..(Len(timers) - 1) |->
                                       IF j < i THEN timers[j] ELSE timers[j + 1]]]
         w == connect(w0, timers[i].room)
     IN Fits(w) /\ Commit(w)

\* A heartbeat interval ticks.
HeartbeatTick ==
  /\ NoCloseDue
  /\ intervals > 0
  /\ Commit(heartbeatTick(Begin("tick", 0, "", 0)))

Lifecycle(R) ==
  \/ \E r \in R : Connect(r)
  \/ Disconnect
  \/ \E s \in Slots : SocketOpen(s)
  \/ \E s \in Slots : SocketError(s)
  \/ \E s \in Slots : \E c \in CloseCodes : SocketClose(s, c)
  \/ \E i \in 1..MaxTimers : TimerFire(i)
  \/ HeartbeatTick

Outbound ==
  \/ \E t \in Texts : \E r \in MessageIds \cup {Undefined} :
        SendMessage([message |-> t, reply_to |-> r])
  \/ \E m \in MessageIds : \E e \in Emojis : SendReaction(m, e)
  \/ \E m \in MessageIds : SendReadReceipt(m)
  \/ \E m \in MessageIds : \E t \in Texts : EditMessage(m, t)
  \/ \E m \in MessageIds : DeleteMessage(m)
  \/ \E m \in MessageIds : \E t \in Texts : \E r \in MessageIds \cup {Undefined} :
        ReplyToMessage(m, t, r)

\* The connection lifecycle of one room.
Next == Lifecycle({"r1"})

Spec == Init /\ [][Next]_vars

\* The lifecycle in which a transport fails by an abnormal close event
\* alone, with no error event before it.
NextCloses ==
  \/ Connect("r1")
  \/ Disconnect
  \/ \E s \in Slots : SocketOpen(s)
  \/ \E s \in Slots : \E c \in CloseCodes : SocketClose(s, c)
  \/ \E i \in 1..MaxTimers : TimerFire(i)
  \/ HeartbeatTick

SpecCloses == Init /\ [][NextCloses]_vars

\* The outbound commands against every state of the current socket.  A
\* reconnect timer that fires calls connect as the caller does, so the
\* timers are left pending here.
NextOutbound ==
  \/ Connect("r1")
  \/ Disconnect
  \/ \E s \in Slots : SocketOpen(s)
  \/ \E s \in Slots : SocketError(s)
  \/ \E s \in Slots : \E c \in CloseCodes : SocketClose(s, c)
  \/ Outbound

SpecOutbound == Init /\ [][NextOutbound]_vars

\* Subscribers, inbound frames and as much of the lifecycle as delivers them.
NextDispatch ==
  \/ \E e \in Events : \E cb \in Callbacks : On(e, cb)
  \/ \E e \in Events \cup {"other"} : \E cb \in Callbacks \cup {Undefined} : Off(e, cb)
  \/ Connect("r1")
  \/ Disconnect
  \/ \E s \in Slots : SocketOpen(s)
  \/ \E s \in Slots : \E raw \in Inbound : SocketMessage(s, raw)

SpecDispatch == Init /\ [][NextDispatch]_vars

\* Every connection attempt fails and the caller calls connect once and
\* nothing else.  Timers fire and failed sockets deliver their events, so
\* the steps are weakly fair.
FirstConnect(roomName) == ev.op = "init" /\ Connect(roomName)

\* The state after construction and the caller's registrations.
InitFail ==
  /\ socket = 0
  /\ reconnectAttempts = 0
  /\ reconnectTimeout = "null"
  /\ heartbeatInterval = "null"
  /\ connectionPromise = NoPromise
  /\ callbacks \in {[e \in Events |-> l] : l \in {<<>>, <<"f">>, <<"f", "g">>}}
  /\ socks = [s \in Slots |-> NoSock]
  /\ timers = <<>>
  /\ delays = <<>>
  /\ intervals = 0
  /\ ev = NoObs

NextFail ==
  \/ \E r \in Rooms : FirstConnect(r)
  \/ \E s \in Slots : SocketError(s)
  \/ \E s \in Slots : \E c \in CloseCodes : SocketClose(s, c)
  \/ \E i \in 1..MaxTimers : TimerFire(i)

SpecFail == InitFail /\ [][NextFail]_vars /\ WF_vars(NextFail)

\* The commands and the heartbeat on one connection after another, for the
\* frames they write.
NextFrames ==
  \/ Connect("r1")
  \/ Disconnect
  \/ \E s \in Slots : SocketOpen(s)
  \/ Outbound
  \/ HeartbeatTick

SpecFrames == Init /\ [][NextFrames]_vars

\* One connection and the frames it delivers, with the log switched on.
InitOrder ==
  /\ socket = 0
  /\ reconnectAttempts = 0
  /\ reconnectTimeout = "null"
  /\ heartbeatInterval = "null"
  /\ connectionPromise = NoPromise
  /\ callbacks = [e \in Events |->
                    IF e \in {"message", "reaction"} THEN <<"f", "g">> ELSE <<>>]
  /\ socks = [s \in Slots |-> NoSock]
  /\ timers = <<>>
  /\ delays = <<>>
  /\ intervals = 0
  /\ ev = [NoObs EXCEPT !.log.on = TRUE]

NextOrder ==
  \/ Connect("r1")
  \/ \E s \in Slots : SocketOpen(s)
  \/ \E s \in Slots :
       \E raw \in {[ok |-> TRUE, type |-> Undefined], [ok |-> TRUE, type |-> "reaction"],
                    [ok |-> TRUE, type |-> "pong"], [ok |-> FALSE, type |-> Undefined]} :
         SocketMessage(s, raw)

SpecOrder == InitOrder /\ [][NextOrder]_vars

\* A subscriber that calls disconnect() when a chat message arrives, and
\* one registered after it; the lifecycle and chat-message frames.
InitReentrant ==
  /\ socket = 0
  /\ reconnectAttempts = 0
  /\ reconnectTimeout = "null"
  /\ heartbeatInterval = "null"
  /\ connectionPromise = NoPromise
  /\ callbacks = [e \in Events |-> IF e = "message" THEN <<"closer", "f">> ELSE <<>>]
  /\ socks = [s \in Slots |-> NoSock]
  /\ timers = <<>>
  /\ delays = <<>>
  /\ intervals = 0
  /\ ev = NoObs

NextReentrant ==
  \/ Lifecycle({"r1"})
  \/ \E s \in Slots : SocketMessage(s, [ok |-> TRUE, type |-> Undefined])

SpecReentrant == InitReentrant /\ [][NextReentrant]_vars

\* A registry after the caller's registrations in which the seven kinds
\* have seven different lists.
Subscribed ==
  [e \in Events |->
     CASE e = "message" -> <<"f">>
       [] e = "reaction" -> <<"g">>
       [] e = "user_status" -> <<"f", "g">>
       [] e = "notification" -> <<"g", "f">>
       [] e = "message_edited" -> <<"f", "f">>
       [] e = "message_deleted" -> <<"g", "g">>
       [] e = "read_receipt" -> <<>>]

InitInbound ==
  /\ socket = 0
  /\ reconnectAttempts = 0
  /\ reconnectTimeout = "null"
  /\ heartbeatInterval = "null"
  /\ connectionPromise = NoPromise
  /\ callbacks \in {[e \in Events |-> <<>>], Subscribed}
  /\ socks = [s \in Slots |-> NoSock]
  /\ timers = <<>>
  /\ delays = <<>>
  /\ intervals = 0
  /\ ev = NoObs

\* Inbound frames on every socket that can deliver them: the current one
\* and the older ones that are still open.  Sockets close normally here: an
\* abnormal close adds a reconnect timer and nothing to the message handlers.
NextInbound ==
  \/ Connect("r1")
  \/ Disconnect
  \/ \E s \in Slots : SocketOpen(s)
  \/ \E s \in Slots : SocketClose(s, NormalClosure)
  \/ \E s \in Slots : \E raw \in Inbound : SocketMessage(s, raw)

SpecInbound == InitInbound /\ [][NextInbound]_vars

\* The registry of two kinds, starting empty or with a callback registered
\* twice around another, and one connection that delivers frames of the two
\* kinds.
RegistryKinds == {"message", "reaction"}

InitRegistry ==
  /\ socket = 0
  /\ reconnectAttempts = 0
  /\ reconnectTimeout = "null"
  /\ heartbeatInterval = "null"
  /\ connectionPromise = NoPromise
  /\ callbacks \in {[e \in Events |-> IF e = "message" THEN l ELSE <<>>] :
                       l \in {<<>>, <<"f", "g", "f">>}}
  /\ socks = [s \in Slots |-> NoSock]
  /\ timers = <<>>
  /\ delays = <<>>
  /\ intervals = 0
  /\ ev = NoObs

NextRegistry ==
  \/ \E e \in RegistryKinds : \E cb \in {"f", "g"} : On(e, cb)
  \/ \E e \in RegistryKinds \cup {"other"} : \E cb \in {"f", "g", Undefined} : Off(e, cb)
  \/ Connect("r1")
  \/ \E s \in Slots : SocketOpen(s)
  \/ \E s \in Slots : \E type \in {Undefined, "reaction"} :
        SocketMessage(s, [ok |-> TRUE, type |-> type])

SpecRegistry == InitRegistry /\ [][NextRegistry]_vars

\* Two rooms: the caller connects to either, transports fail and the
\* reconnect timers fire.  No transport opens, so the count is reset by
\* disconnect() alone.
NextRooms ==
  \/ \E r \in Rooms : Connect(r)
  \/ Disconnect
  \/ \E s \in Slots : SocketError(s)
  \/ \E s \in Slots : \E c \in CloseCodes : SocketClose(s, c)
  \/ \E i \in 1..MaxTimers : TimerFire(i)

SpecRooms == Init /\ [][NextRooms]_vars

\* Subscribers of the chat-message kind that unsubscribe while a frame is
\* dispatched: one that removes itself, first or between two others, and
\* one that empties the list; connections that deliver chat messages and
\* reactions.
UnsubscribeLists == {<<"unsub", "f">>, <<"f", "unsub", "g">>, <<"clearer", "f">>,
                     <<"f", "g">>}

InitUnsubscribe ==
  /\ socket = 0
  /\ reconnectAttempts = 0
  /\ reconnectTimeout = "null"
  /\ heartbeatInterval = "null"
  /\ connectionPromise = NoPromise
  /\ callbacks \in {[e \in Events |-> IF e = "message" THEN l ELSE <<>>] :
                       l \in UnsubscribeLists}
  /\ socks = [s \in Slots |-> NoSock]
  /\ timers = <<>>
  /\ delays = <<>>
  /\ intervals = 0
  /\ ev = NoObs

NextUnsubscribe ==
  \/ Connect("r1")
  \/ Disconnect
  \/ \E s \in Slots : SocketOpen(s)
  \/ \E s \in Slots : SocketClose(s, NormalClosure)
  \/ \E s \in Slots : \E type \in {Undefined, "reaction"} :
        SocketMessage(s, [ok |-> TRUE, type |-> type])

SpecUnsubscribe == InitUnsubscribe /\ [][NextUnsubscribe]_vars

-----------------------------------------------------------------------------
(* Properties *)

\* The fields of the manager and the objects of the browser, without ev.
ManagerState == <<socket, reconnectAttempts, reconnectTimeout, heartbeatInterval,
                  connectionPromise, callbacks, socks, timers, delays, intervals>>

\* The transports that are connecting or open; the handlers of the manager
\* are never detached from a socket.
LiveTransports == {s \in Slots : socks[s].st \in {"CONNECTING", "OPEN"}}

CurrentOpen == socket # 0 /\ socks[socket].st = "OPEN"

SendOps == {"sendMessage", "sendReaction", "sendReadReceipt", "editMessage",
            "deleteMessage", "replyToMessage"}

\* C1: in every reachable state at most one transport is live.
C1_AtMostOneLiveTransport == Cardinality(LiveTransports) <= 1

\* C2: a connect() made while an earlier attempt is still connecting creates
\* no transport and returns the promise of an attempt still connecting.
C2_InFlightConnectReused ==
  (ev.op = "connect" /\ \E s \in Slots : s # ev.created /\ socks[s].st = "CONNECTING")
    => /\ ev.created = 0
       /\ ev.returned.kind = "attempt"
       /\ socks[ev.returned.sock].st = "CONNECTING"

\* C3: from disconnect() until the caller's next connect() (this.socket is
\* null exactly then) no socket event and no timer schedules a reconnect
\* timer or creates a transport.
C3_NoReconnectAfterDisconnect ==
  [][(socket = 0 /\ ev'.op \in {"error", "close", "timer"})
       => (ev'.sched = <<>> /\ ev'.created = 0)]_vars

\* C4: right after disconnect() no reconnect timer is pending.
C4_DisconnectCancelsEveryTimer == ev.op = "disconnect" => timers = <<>>

\* C5: the delays scheduled since the count was 0 are 1000, 2000, .. one per
\* attempt and at most five; an abnormal close schedules exactly one timer,
\* of 1000 ms times the new count, or nothing once the count is 5.
C5_BackoffSchedule ==
  /\ Len(delays) = reconnectAttempts
  /\ Len(delays) <= 5
  /\ \A i \in 1..Len(delays) : delays[i] = 1000 * i
  /\ (ev.op = "close" /\ ev.code # 1000)
       => \/ ev.sched = <<1000 * reconnectAttempts>>
          \/ ev.sched = <<>> /\ reconnectAttempts = 5

\* Five abnormal closes have scheduled 1000 .. 5000 and a sixth has just
\* scheduled nothing.
C5_SixthCloseSchedulesNothing ==
  /\ ev.op = "close" /\ ev.code # 1000
  /\ ev.sched = <<>>
  /\ delays = <<1000, 2000, 3000, 4000, 5000>>

\* With no successful open and no disconnect() no timer is cancelled and
\* the count is never reset: the timers that fired are those scheduled and
\* no longer pending.
AutomaticRetries == Len(delays) - Len(timers)

Quiescent == timers = <<>> /\ \A s \in Slots : socks[s].st \in {"NONE", "CLOSED"}

\* C6: when every attempt fails and the caller only calls connect once, at
\* most five retries are made, no subscriber is invoked, and from some
\* point on no timer is pending and no transport is left.
C6_RetriesTerminate ==
  /\ [](AutomaticRetries <= 5 /\ ev.invoked = <<>>)
  /\ <>[]Quiescent

\* With subscribers registered, the fifth retry has failed and nothing is
\* left pending.
C6_GaveUpAfterFiveRetries ==
  /\ Quiescent
  /\ callbacks["message"] # <<>>
  /\ reconnectAttempts = 5
  /\ AutomaticRetries = 5
  /\ ev.op = "close"

\* C7: in a dispatch in which a callback throws, every callback of the list
\* is still invoked.
C7_ThrowingCallbackIsolated ==
  (ev.op = "message" /\ \E i \in 1..Len(ev.invoked) : ev.invoked[i] = "thrower")
    => ev.invoked = ev.list

\* C8: an outbound operation called while the current transport is absent
\* or not open writes nothing, throws nothing and changes nothing.
C8_SendWhileNotOpenDropped ==
  [][(ev'.op \in SendOps /\ ~CurrentOpen)
       => (ev'.out = <<>> /\ ~ev'.threw /\ UNCHANGED ManagerState)]_vars

\* A command was called while the current socket was still connecting.
C8_DroppedWhileConnecting ==
  /\ ev.op \in SendOps
  /\ socket # 0 /\ socks[socket].st = "CONNECTING"
  /\ ev.out = <<>>

\* C9: every close event stops the heartbeat and clears the in-flight
\* marker; attemptReconnect is called exactly when the code is not 1000,
\* and a close with code 1000 changes nothing else.
C9_CloseHandler ==
  [][ev'.op = "close"
       => /\ heartbeatInterval' = "null"
          /\ intervals' = intervals - (IF heartbeatInterval = "handle" THEN 1 ELSE 0)
          /\ connectionPromise' = NoPromise
          /\ (ev'.reconn = 1) <=> (ev'.code # 1000)
          /\ ev'.code = 1000
               => /\ ev'.reconn = 0
                  /\ UNCHANGED <<socket, reconnectAttempts, reconnectTimeout,
                                 timers, delays, callbacks>>]_vars

\* A close with code 1000 arrived while a retry was pending.
C9_NormalCloseDuringRetry ==
  /\ ev.op = "close" /\ ev.code = 1000
  /\ reconnectAttempts > 0
  /\ timers # <<>>

\* C10: the error event of a transport that is still connecting rejects the
\* promise of its connect() and calls attemptReconnect in the same step,
\* which leaves a timer for the room pending while attempts remain.
C10_ErrorBeforeOpen ==
  [][\A s \in Slots :
       (ev'.op = "error" /\ ev'.sock = s /\ socks[s].st = "CONNECTING")
         => /\ socks'[s].promise = "rejected"
            /\ ev'.settled = "rejected"
            /\ ev'.reconn = 1
            /\ reconnectAttempts < 5
                 => /\ Len(timers') = Len(timers) + 1
                    /\ timers'[Len(timers')] = [room |-> socks[s].room, held |-> TRUE]
                    /\ reconnectTimeout' = "handle"]_vars

\* The first attempt has just failed: rejected, and one timer of 1000 ms.
C10_FirstAttemptFailed ==
  /\ ev.op = "error"
  /\ ev.settled = "rejected"
  /\ ev.sched = <<1000>>
  /\ timers = <<[room |-> "r1", held |-> TRUE]>>

\* C11: when a transport opens, the attempt count is 0, the heartbeat is
\* started and the promise of its connect() is resolved with the transport
\* that opened.
C11_OpenResolvesWithTransport ==
  ev.op = "open"
    => /\ reconnectAttempts = 0
       /\ heartbeatInterval = "handle"
       /\ ev.settled = "resolved"
       /\ ev.resolvedWith = ev.sock

\* C12: connect() called (by the caller or by a reconnect timer) while the
\* current transport is open creates no transport and returns a promise
\* resolved with the current transport: the one kept in the marker, or a
\* new one resolved at once when the marker is clear.
C12_ConnectWhileOpen ==
  [][(ev'.op \in {"connect", "timer"} /\ CurrentOpen)
       => /\ ev'.created = 0
          /\ socket' = socket
          /\ socks' = socks
          /\ ev'.returned.sock = socket
          /\ \/ /\ connectionPromise = NoPromise
                /\ ev'.returned.kind = "immediate"
                /\ ev'.resolvedWith = socket
             \/ /\ connectionPromise # NoPromise
                /\ ev'.returned = connectionPromise
                /\ socks[socket].promise = "resolved"
                /\ socks[socket].value = "self"]_vars

\* connect() was called with the current transport open and the marker
\* cleared (by the close event of an older socket).
C12_OpenAndMarkerClear ==
  /\ ev.op = "connect"
  /\ ev.returned.kind = "immediate"
  /\ ev.created = 0
  /\ socket # 0 /\ socks[socket].st = "OPEN"

\* C13: right after disconnect() no heartbeat interval runs, no reconnect
\* timer is pending, the manager holds no socket (the one it held was asked
\* to close with code 1000), the marker is clear and the count is 0.
C13_AfterDisconnect ==
  ev.op = "disconnect"
    => /\ intervals = 0 /\ heartbeatInterval = "null"
       /\ timers = <<>> /\ reconnectTimeout = "null"
       /\ socket = 0
       /\ \A i \in 1..Len(ev.closeCalls) : ev.closeCalls[i][2] = 1000
       /\ connectionPromise = NoPromise
       /\ reconnectAttempts = 0

\* C14: disconnect() in the initial state or right after a disconnect()
\* throws nothing, closes no socket and changes nothing.
C14_DisconnectWhenIdle ==
  [][(ev'.op = "disconnect" /\ ev.op \in {"init", "disconnect"})
       => /\ ~ev'.threw
          /\ ev'.closeCalls = <<>>
          /\ ev'.cleared = 0
          /\ UNCHANGED ManagerState]_vars

\* disconnect() closed nothing while the socket closed by the disconnect()
\* before it is still closing.
C14_SecondDisconnect ==
  /\ ev.op = "disconnect"
  /\ ev.closeCalls = <<>>
  /\ socket = 0
  /\ \E s \in Slots : socks[s].st = "CLOSING"
  /\ \A s \in Slots : socks[s].st \in {"CLOSING", "NONE"}
  /\ timers = <<>> /\ intervals = 0

\* C15: a frame of type pong updates the last-seen time and reaches no
\* subscriber callback, on whichever socket it arrives.
C15_PongNeverDispatched ==
  (ev.op = "message" /\ ev.ok /\ ev.type = "pong")
    => /\ ev.touched
       /\ ev.invoked = <<>>

Kinds == {"reaction", "user_status", "notification", "message_edited",
          "message_deleted", "read_receipt"}

KindOfType(type) == IF type \in Kinds THEN type ELSE "message"

\* C16: a well-formed frame (other than a pong, see C15) is dispatched to
\* the list of one kind: the kind named by its type for the six typed kinds,
\* the chat-message list for a frame with no type or another type.  The
\* callbacks invoked are those of that list, from its first on.
C16_DispatchByType ==
  [][(ev'.op = "message" /\ ev'.ok /\ ev'.type # "pong")
       => LET list == callbacks[KindOfType(ev'.type)] IN
          /\ ev'.event = KindOfType(ev'.type)
          /\ ev'.list = list
          /\ Len(ev'.invoked) <= Len(list)
          /\ \A i \in 1..Len(ev'.invoked) : ev'.invoked[i] = list[i]
          /\ (\A i \in 1..Len(list) : list[i] # "thrower") => ev'.invoked = list]_vars

\* A message_edited frame went to the two callbacks of that kind and not
\* to the chat-message list.
C16_EditedFrameDispatched ==
  /\ ev.op = "message" /\ ev.type = "message_edited"
  /\ callbacks = Subscribed
  /\ ev.event = "message_edited"
  /\ ev.invoked = <<"f", "f">>

\* C17: a frame that fails to parse invokes no callback, lets no exception
\* out of the handler and changes nothing of the connection.
C17_MalformedFrameDropped ==
  [][(ev'.op = "message" /\ ~ev'.ok)
       => /\ ev'.invoked = <<>>
          /\ ~ev'.threw
          /\ UNCHANGED ManagerState]_vars

\* A malformed frame arrived on the current socket with subscribers
\* registered, and its exception was caught.
C17_MalformedFrameCaught ==
  /\ ev.op = "message" /\ ~ev.ok
  /\ ev.caught
  /\ ev.sock = socket
  /\ callbacks = Subscribed

\* C18: a dispatch invokes the callbacks registered for the kind in the
\* order of their registration, each as many times as it is registered:
\* the callbacks invoked are the list of the kind.
C18_DispatchInRegistrationOrder ==
  [][(ev'.op = "message" /\ ev'.event # "")
       => ev'.invoked = callbacks[ev'.event]]_vars

\* C19: off(kind, cb) removes the first occurrence of cb from the list of
\* the kind and keeps the rest in order (nothing when cb is not in it),
\* off(kind) empties the list, and the lists of the other kinds stay.
C19_OffRemovesFirstOccurrence ==
  [][ev'.op = "off"
       => /\ \A k \in Events \ {ev'.room} : callbacks'[k] = callbacks[k]
          /\ ev'.room \in Events
               => LET old == callbacks[ev'.room]
                      new == callbacks'[ev'.room]
                      cb == ev'.callback
                  IN IF cb = Undefined THEN new = <<>>
                     ELSE IF \A i \in 1..Len(old) : old[i] # cb THEN new = old
                     ELSE \E i \in 1..Len(old) :
                            /\ old[i] = cb
                            /\ \A j \in 1..(i - 1) : old[j] # cb
                            /\ new = SubSeq(old, 1, i - 1) \o SubSeq(old, i + 1, Len(old))]_vars

\* off('message', f) on the list f, g, f has left g, f.
C19_FirstOfTwoRemoved ==
  /\ ev.op = "off" /\ ev.room = "message" /\ ev.callback = "f"
  /\ callbacks["message"] = <<"g", "f">>

\* C20: a callback registered for a kind that had none and removed by the
\* next call leaves the kind with no callback, and a frame of the kind
\* dispatched next invokes nothing.
C20_OnThenOff ==
  /\ ev.trip = "on,off" => callbacks[ev.room] = <<>>
  /\ ev.trip = "on,off,dispatch" => (ev.invoked = <<>> /\ callbacks[ev.event] = <<>>)

\* A reaction frame was dispatched right after onReaction(cb) and
\* off('reaction', cb), with callbacks of another kind registered.
C20_DispatchAfterRoundTrip ==
  /\ ev.trip = "on,off,dispatch"
  /\ ev.event = "reaction"
  /\ callbacks["message"] # <<>>

\* C21: a call of attemptReconnect made when the count is n - 1, for n in
\* 1..5, schedules one timer of 1000 * n ms and makes the count n; a retry
\* is scheduled when the count is 4, and none when it is 5.
C21_DelayOfAttempt ==
  [][ev'.reconn = 1
       => /\ \A n \in 1..5 :
               reconnectAttempts = n - 1
                 => (ev'.sched = <<1000 * n>> /\ reconnectAttempts' = n)
          /\ reconnectAttempts = 4 => ev'.sched = <<5000>>
          /\ reconnectAttempts = 5
               => (ev'.sched = <<>> /\ reconnectAttempts' = 5
                   /\ timers' = timers /\ reconnectTimeout' = reconnectTimeout)
          /\ reconnectAttempts \in 0..5]_vars

\* The fifth retry has just been scheduled, from a count of 4.
C21_FifthRetryScheduled ==
  /\ ev.reconn = 1
  /\ ev.sched = <<5000>>
  /\ reconnectAttempts = 5

TypeTag(op) ==
  CASE op = "sendReaction" -> "reaction"
    [] op = "sendReadReceipt" -> "read_receipt"
    [] op = "editMessage" -> "edit_message"
    [] op = "deleteMessage" -> "delete_message"
    [] op = "tick" -> "ping"

\* C22: a frame written for a posted message (sendMessage, replyToMessage)
\* has the key message, no key other than message and reply_to, and so no
\* type; a frame written by react, mark-read, edit, delete or the heartbeat
\* has the type reaction, read_receipt, edit_message, delete_message, ping.
C22_FrameShapes ==
  \A i \in 1..Len(ev.out) :
    LET frame == ev.out[i].frame IN
    IF ev.op \in {"sendMessage", "replyToMessage"}
    THEN /\ "message" \in DOMAIN frame
         /\ DOMAIN frame \subseteq {"message", "reply_to"}
    ELSE /\ ev.op \in {"sendReaction", "sendReadReceipt", "editMessage",
                        "deleteMessage", "tick"}
         /\ "type" \in DOMAIN frame
         /\ frame.type = TypeTag(ev.op)

\* sendMessage has written the frame of a reply: message and reply_to only.
C22_PostedReplyFrame ==
  /\ ev.op = "sendMessage"
  /\ Len(ev.out) = 1
  /\ ev.out[1].frame = [message |-> "hi", reply_to |-> "7"]

\* C23: an outbound operation called while the current transport is open
\* writes exactly one frame, to the current transport.
C23_OneFrameToCurrentTransport ==
  [][(ev'.op \in SendOps /\ CurrentOpen)
       => /\ Len(ev'.out) = 1
          /\ ev'.out[1].sock = socket
          /\ UNCHANGED ManagerState]_vars

\* A frame was written while an older socket was open too, in the slot
\* below the current one.
C23_WrittenBesideOlderSocket ==
  /\ ev.op \in SendOps
  /\ Len(ev.out) = 1
  /\ \E s \in Slots : s < socket /\ socks[s].st = "OPEN"

\* The invocations of the log made with frame number n.
CallsOfFrame(n) == {i \in 1..Len(ev.log.calls) : ev.log.calls[i].n = n}

\* C24: the callbacks are invoked frame by frame in the order of arrival:
\* the frame numbers of the invocations never decrease, every invocation is
\* for a frame received, and the invocations made while a frame is handled
\* are all for that frame (none is held back for a later step).
C24_DispatchInArrivalOrder ==
  LET calls == ev.log.calls
      rx == ev.log.rx
  IN /\ \A i, j \in 1..Len(calls) : i < j => calls[i].n <= calls[j].n
     /\ \A i \in 1..Len(calls) : calls[i].n \in 1..Len(rx)
     /\ (ev.log.on /\ ev.op = "message")
          => /\ Cardinality(CallsOfFrame(Len(rx))) = Len(ev.invoked)
             /\ (rx[Len(rx)].ok /\ rx[Len(rx)].type # "pong")
                  => ev.invoked = callbacks[KindOfType(rx[Len(rx)].type)]

\* Three frames have arrived, the first and the third were dispatched to
\* two callbacks each and the second was a pong.
C24_ThreeFramesInOrder ==
  /\ Len(ev.log.rx) = 3
  /\ ev.log.rx[2].type = "pong"
  /\ Len(ev.log.calls) = 4
  /\ ev.log.calls[1].n = 1 /\ ev.log.calls[2].n = 1
  /\ ev.log.calls[3].n = 3 /\ ev.log.calls[4].n = 3

CloserInvoked(obs) == \E i \in 1..Len(obs.invoked) : obs.invoked[i] = "closer"

\* C25: a dispatch in which a callback calls disconnect() ends with the
\* heartbeat stopped, no timer pending, no socket held, the marker clear and
\* the count 0; every callback of the list is invoked and nothing is thrown;
\* and the close or error event of the socket closed, arriving next,
\* schedules no reconnect.
C25_DisconnectInsideDispatch ==
  [][/\ (ev'.op = "message" /\ CloserInvoked(ev'))
          => /\ heartbeatInterval' = "null" /\ intervals' = 0
             /\ reconnectTimeout' = "null" /\ timers' = <<>>
             /\ socket' = 0
             /\ connectionPromise' = NoPromise
             /\ reconnectAttempts' = 0
             /\ ev'.invoked = callbacks[ev'.event]
             /\ ~ev'.threw /\ ~ev'.caught
     /\ (ev.op = "message" /\ CloserInvoked(ev) /\ ev.closeCalls # <<>>
           /\ ev'.op \in {"close", "error"} /\ ev'.sock = ev.closeCalls[1][1])
          => (ev'.sched = <<>> /\ ev'.reconn = 0)]_vars

\* C26: a heartbeat tick writes one ping frame to the current transport
\* when that transport is open, and otherwise writes nothing; it throws
\* nothing and changes nothing.
C26_PingIffOpen ==
  [][ev'.op = "tick"
       => /\ CurrentOpen
               => ev'.out = <<[sock |-> socket, frame |-> [type |-> "ping"]]>>
          /\ ~CurrentOpen => ev'.out = <<>>
          /\ ~ev'.threw
          /\ UNCHANGED ManagerState]_vars

\* An interval ticked while the current socket was no longer open.
C26_TickWhileNotOpen ==
  /\ ev.op = "tick"
  /\ ev.out = <<>>
  /\ socket # 0 /\ socks[socket].st \in {"CLOSING", "CLOSED"}

\* C27: the heartbeat runs exactly while the current transport is open: the
\* manager holds an interval handle, and one interval is running, if and
\* only if this.socket is open.  (Between the error event and the close
\* event of a failed socket the close handler has not run yet.)
C27_HeartbeatIffOpen ==
  NoCloseDue
    => /\ (heartbeatInterval = "handle") <=> CurrentOpen
       /\ intervals = (IF CurrentOpen THEN 1 ELSE 0)

\* C28: at most one reconnect timer is pending and every pending timer is
\* the one whose handle the manager holds.
C28_SingleTrackedTimer ==
  /\ Len(timers) <= 1
  /\ \A i \in 1..Len(timers) : timers[i].held /\ reconnectTimeout = "handle"

\* C29: an open sets the count to 0, and a transport that fails adds one to
\* the count, once: its error event or, when there was none, its abnormal
\* close event adds one (while the count is below 5), and the close event
\* that comes after its error event adds nothing.
C29_OneIncrementPerFailedTransport ==
  [][/\ ev'.op = "open" => reconnectAttempts' = 0
     /\ ev'.op = "error"
          => reconnectAttempts' = (IF reconnectAttempts < 5
                                   THEN reconnectAttempts + 1 ELSE reconnectAttempts)
     /\ (ev'.op = "close" /\ socks[ev'.sock].st = "FAILED")
          => reconnectAttempts' = reconnectAttempts
     /\ (ev'.op = "close" /\ socks[ev'.sock].st # "FAILED")
          => reconnectAttempts' = (IF ev'.code # 1000 /\ reconnectAttempts < 5
                                   THEN reconnectAttempts + 1 ELSE reconnectAttempts)]_vars

\* A socket the client has not asked to close: disconnect() is the only
\* caller of close().
NotClosedByClient(s) == socks[s].st \in {"CONNECTING", "OPEN"}

\* C30: the close event of an established transport that the client did
\* not ask to close invokes the reconnection path, whatever its close code
\* (a close frame of the server can carry code 1000 only once the
\* connection is open).
C30_ForeignCloseAlwaysRetries ==
  [][\A s \in Slots :
       (ev'.op = "close" /\ ev'.sock = s /\ socks[s].st = "OPEN")
         => ev'.reconn = 1]_vars

\* C30 as amended: the close event of a transport that the client did not
\* ask to close invokes the reconnection path exactly when its code is not
\* 1000 (one more timer while the count is below 5); with code 1000, also
\* when the server initiated the close, no timer is scheduled and the count
\* stays.  The error event of such a transport invokes it always.
C30_ForeignCloseRetriesByCode ==
  [][\A s \in Slots :
       /\ (ev'.op = "close" /\ ev'.sock = s /\ NotClosedByClient(s))
            => /\ (ev'.reconn = 1) <=> (ev'.code # 1000)
               /\ (ev'.code # 1000 /\ reconnectAttempts < 5)
                    => Len(timers') = Len(timers) + 1
               /\ ev'.code = 1000
                    => (ev'.sched = <<>> /\ timers' = timers
                        /\ reconnectAttempts' = reconnectAttempts)
       /\ (ev'.op = "error" /\ ev'.sock = s /\ NotClosedByClient(s))
            => ev'.reconn = 1]_vars

\* The server has closed the current transport with code 1000 and nothing
\* is scheduled.
C30_ServerClosedNormally ==
  /\ ev.op = "close" /\ ev.code = 1000 /\ ev.was = "OPEN"
  /\ socket # 0 /\ ev.sock = socket
  /\ timers = <<>>
  /\ \A s \in Slots : socks[s].st \in {"NONE", "CLOSED"}

\* C31: a reconnect timer scheduled by the error or close event of a
\* transport carries the room that transport was created with, a timer that
\* fires calls connect with the room of the timer, and a transport created
\* by that call is created with this room: along a chain of retries the
\* room stays the one given to the caller's connect().
C31_RetryKeepsRoom ==
  [][/\ \A s \in Slots :
          (ev'.op \in {"error", "close"} /\ ev'.sock = s)
            => /\ Len(timers') = Len(timers) + Len(ev'.sched)
               /\ \A i \in 1..Len(timers) : timers'[i].room = timers[i].room
               /\ \A i \in (Len(timers) + 1)..Len(timers') :
                     timers'[i].room = socks[s].room
     /\ ev'.op = "timer"
          => /\ \E i \in 1..Len(timers) : timers[i].room = ev'.room
             /\ ev'.created # 0 => socks'[ev'.created].room = ev'.room]_vars

\* A retry in room r2 has created its transport after the transport of an
\* earlier retry of that room failed (a transport adds at most two to the
\* count), while a socket of room r1 has not yet delivered its close event.
C31_SecondRetryInSecondRoom ==
  /\ ev.op = "timer" /\ ev.room = "r2"
  /\ ev.created # 0 /\ socks[ev.created].room = "r2"
  /\ reconnectAttempts = 3
  /\ \E s \in Slots : socks[s].room = "r1" /\ socks[s].st = "CLOSING"

\* C32: in every reachable state the attempt count is between 0 and the
\* maximum of 5.
C32_AttemptsWithinLimit ==
  0 <= reconnectAttempts /\ reconnectAttempts <= maxReconnectAttempts

\* The error event of a transport has called attemptReconnect with the
\* count at 5: the count is still 5 and nothing was scheduled.
C32_CallAtTheLimit ==
  /\ ev.op = "error" /\ ev.reconn = 1
  /\ ev.sched = <<>>
  /\ reconnectAttempts = 5

\* C33: the close or error event of a transport that is no longer the
\* current one, arriving while the manager holds a newer transport, leaves
\* the in-flight marker and the heartbeat of the newer connection as they
\* are.
C33_SupersededEventsHarmless ==
  [][\A s \in Slots :
       (ev'.op \in {"close", "error"} /\ ev'.sock = s /\ socket # 0 /\ s # socket)
         => /\ connectionPromise' = connectionPromise
            /\ heartbeatInterval' = heartbeatInterval
            /\ intervals' = intervals]_vars

TimesInvoked(obs, cb) == Cardinality({i \in 1..Len(obs.invoked) : obs.invoked[i] = cb})

\* C35: in a dispatch in which a callback calls off for the kind being
\* dispatched, every callback that was in the list of the kind when the
\* dispatch began and is still in it afterwards was invoked exactly once.
C35_UnsubscribeDuringDispatch ==
  [][(ev'.op = "message" /\ ev'.event # ""
        /\ \E i \in 1..Len(ev'.invoked) : ev'.invoked[i] \in {"unsub", "clearer"})
       => LET before == callbacks[ev'.event]
              after == callbacks'[ev'.event]
          IN \A i \in 1..Len(before) :
               (\E j \in 1..Len(after) : after[j] = before[i])
                 => TimesInvoked(ev', before[i]) = 1]_vars

\* C36: at most one heartbeat interval is running, and it is the one whose
\* handle the manager holds.
C36_SingleTrackedInterval ==
  /\ intervals <= 1
  /\ intervals = 1 => heartbeatInterval = "handle"

\* C37: connect(roomB) called by the caller while the transport the manager
\* holds is connecting or open and was created for another room creates no
\* transport, leaves the manager's transport in place and returns a promise
\* of that transport.
C37_OtherRoomWhileLive ==
  [][(ev'.op = "connect" /\ socket # 0
        /\ socks[socket].st \in {"CONNECTING", "OPEN"}
        /\ socks[socket].room # ev'.room)
       => /\ ev'.created = 0
          /\ socket' = socket
          /\ ev'.returned.sock = socket]_vars

\* C38: once the count is at the maximum it stays there until a transport
\* opens or disconnect() is called: in between, connect() and timers leave
\* it, and an error or close event schedules no timer.  So a transport that
\* the caller's connect() creates after exhaustion and that fails schedules
\* no retry.
C38_ExhaustionPersists ==
  [][/\ reconnectAttempts = maxReconnectAttempts
          => /\ ev'.op \notin {"open", "disconnect"}
                  => reconnectAttempts' = maxReconnectAttempts
             /\ ev'.op \in {"error", "close"}
                  => (ev'.sched = <<>> /\ timers' = timers)
     /\ (ev.afterExhaustion # 0 /\ ev'.op \in {"error", "close"}
           /\ ev'.sock = ev.afterExhaustion)
          => /\ ev'.reconn = (IF ev'.op = "close" /\ ev'.code = NormalClosure
                              THEN 0 ELSE 1)
             /\ ev'.sched = <<>> /\ timers' = <<>>
             /\ reconnectAttempts' = maxReconnectAttempts]_vars

\* A transport created by the caller's connect() after exhaustion has
\* failed, error event and then close event, and no timer is pending.
C38_FailedAgainNoRetry ==
  /\ ev.op = "close" /\ ev.was = "FAILED"
  /\ ev.afterExhaustion # 0 /\ ev.afterExhaustion = ev.sock
  /\ ev.sched = <<>> /\ timers = <<>>
  /\ reconnectAttempts = maxReconnectAttempts

====
